---------------------------- MODULE Spec2Model ----------------------------
(***************************************************************************)
(* Phaser.Tween (src/wip/TS Source/tweens/Tween.ts): a property tween      *)
(* driven by update(time), with yoyo, loop, chaining, pause and resume.    *)
(*                                                                         *)
(* JavaScript values are tagged records [k, n, d, s]:                      *)
(*   "num"    the rational n/d in lowest terms, d > 0.  The durations     *)
(*            given to to() are powers of two and all other inputs small  *)
(*            integers, so every number written to the target is a dyadic *)
(*            rational on which the source's binary floating point        *)
(*            arithmetic is exact;                                         *)
(*   "nan", "undef", "null"   NaN, undefined, null;                        *)
(*   "arr"    an Array whose elements are the sequence s;                  *)
(*   "str"    the string whose characters are the sequence s;              *)
(*   "absent" marks a key an object does not have.                         *)
(***************************************************************************)
EXTENDS Integers, Sequences, FiniteSets, TLC

\* ------------------------------------------------------------------ bounds

\* The clock stops advancing at MaxTime.
MaxTime == 6
\* The largest step of the clock between two frames.
MaxStep == 2
\* update() is no longer called once onComplete was dispatched this often.
MaxCompletions == 2
\* The tween is paused at most this often.
MaxPauses == 1
\* A caller of the public methods makes at most this many calls,
MaxCalls == 4
\* and calls to() only among the first of them.
MaxConfigs == 2

\* ------------------------------------------------------------ input domains

Keys == {"x", "y"}
ChainIds == <<"B", "C">>
Durations == {1, 2}
Delays == {0, 1}
\* The delays a caller of the public methods passes to to().
AnyDelays == {-1, 0, 1}
EasingNames == {"Linear", "QuadIn"}

\* ------------------------------------------------------------------ values

Val(kind, num, den, elems) == [k |-> kind, n |-> num, d |-> den, s |-> elems]

RECURSIVE GCD(_, _)
GCD(a, b) == IF b = 0 THEN a ELSE GCD(b, a % b)

Abs(i) == IF i < 0 THEN -i ELSE i

\* The number n/d (d > 0) in lowest terms.
Rat(num, den) ==
    LET g == GCD(Abs(num), den)
    IN  Val("num", num \div g, den \div g, <<>>)

N(i) == Val("num", i, 1, <<>>)
NaN == Val("nan", 0, 1, <<>>)
Undef == Val("undef", 0, 1, <<>>)
Null == Val("null", 0, 1, <<>>)
Absent == Val("absent", 0, 1, <<>>)
Arr(elems) == Val("arr", 0, 1, elems)
Str(chars) == Val("str", 0, 1, chars)

IsNum(v) == v.k = "num"
IsArr(v) == v.k = "arr"

\* ---------------------------------------------------- the texts of values

\* A text is the sequence of its characters.
Digit == <<"0", "1", "2", "3", "4", "5", "6", "7", "8", "9">>

IsDigit(ch) == \E i \in 1..Len(Digit) : Digit[i] = ch

DigitValue(ch) == (CHOOSE i \in 1..Len(Digit) : Digit[i] = ch) - 1

RECURSIVE NatText(_)
NatText(i) ==
    IF i < Len(Digit) THEN <<Digit[i + 1]>>
    ELSE Append(NatText(i \div Len(Digit)), Digit[(i % Len(Digit)) + 1])

\* The decimals of r/d, r < d.  Every number of the model has a denominator
\* that divides a power of ten, so the expansion ends; it is cut after 20
\* decimals in any case.
RECURSIVE FracText(_, _, _)
FracText(r, d, left) ==
    IF r = 0 \/ left = 0 THEN <<>>
    ELSE <<Digit[((Len(Digit) * r) \div d) + 1]>>
         \o FracText((Len(Digit) * r) % d, d, left - 1)

\* Number::toString of n/d.
NumText(n, d) ==
    LET whole == NatText(Abs(n) \div d)
        frac == FracText(Abs(n) % d, d, 20)
    IN  (IF n < 0 THEN <<"-">> ELSE <<>>)
        \o whole
        \o (IF frac = <<>> THEN <<>> ELSE <<".">> \o frac)

\* ECMAScript ToString.  An Array is the texts of its elements joined by
\* commas, an element that is undefined or null giving the empty text.
RECURSIVE Text(_)
RECURSIVE JoinText(_, _)
JoinText(elems, i) ==
    IF i > Len(elems) THEN <<>>
    ELSE (IF i > 1 THEN <<",">> ELSE <<>>)
         \o (IF elems[i].k \in {"undef", "null", "absent"} THEN <<>>
             ELSE Text(elems[i]))
         \o JoinText(elems, i + 1)

Text(v) ==
    CASE v.k = "num" -> NumText(v.n, v.d)
      [] v.k = "nan" -> <<"N", "a", "N">>
      [] v.k = "null" -> <<"n", "u", "l", "l">>
      [] v.k = "arr" -> JoinText(v.s, 1)
      [] v.k = "str" -> v.s
      [] OTHER -> <<"u", "n", "d", "e", "f", "i", "n", "e", "d">>

RECURSIVE NatValue(_)
NatValue(c) ==
    IF c = <<>> THEN 0
    ELSE Len(Digit) * NatValue(SubSeq(c, 1, Len(c) - 1)) + DigitValue(c[Len(c)])

RECURSIVE PowerOfTen(_)
PowerOfTen(e) == IF e = 0 THEN 1 ELSE Len(Digit) * PowerOfTen(e - 1)

\* ECMAScript StringToNumber: the empty text is 0; an optional "-", then
\* digits with at most one point among them and at least one digit, is the
\* number so written; any other text is NaN.  The texts of the model hold no
\* blank, no exponent, no "+" and no "Infinity".
StringToNumber(c) ==
    LET negative == Len(c) > 0 /\ c[1] = "-"
        u == IF negative THEN Tail(c) ELSE c
        points == {i \in 1..Len(u) : u[i] = "."}
        digits == SelectSeq(u, IsDigit)
        decimals == IF points = {} THEN 0
                    ELSE Len(u) - (CHOOSE i \in points : TRUE)
    IN  IF c = <<>> THEN Val("num", 0, 1, <<>>)
        ELSE IF \/ Len(digits) + Cardinality(points) # Len(u)
                \/ Cardinality(points) > 1
                \/ Len(digits) = 0
             THEN NaN
             ELSE Rat((IF negative THEN -1 ELSE 1) * NatValue(digits),
                      PowerOfTen(decimals))

\* ECMAScript ToNumber.  An Array or a string is converted by its text.
ToNumber(v) ==
    CASE v.k = "num" -> v
      [] v.k = "null" -> N(0)
      [] v.k \in {"arr", "str"} -> StringToNumber(Text(v))
      [] OTHER -> NaN

\* a + b: string concatenation when an operand is an Array or a string.
JsAdd(a, b) ==
    IF a.k \in {"arr", "str"} \/ b.k \in {"arr", "str"}
    THEN Str(Text(a) \o Text(b))
    ELSE LET p == ToNumber(a)
             q == ToNumber(b)
         IN  IF IsNum(p) /\ IsNum(q)
             THEN Rat(p.n * q.d + q.n * p.d, p.d * q.d)
             ELSE NaN

\* a - b
JsSub(a, b) ==
    LET p == ToNumber(a)
        q == ToNumber(b)
    IN  IF IsNum(p) /\ IsNum(q)
        THEN Rat(p.n * q.d - q.n * p.d, p.d * q.d)
        ELSE NaN

\* a * b
JsMul(a, b) ==
    LET p == ToNumber(a)
        q == ToNumber(b)
    IN  IF IsNum(p) /\ IsNum(q)
        THEN Rat(p.n * q.n, p.d * q.d)
        ELSE NaN


\* --------------------------------------------- objects with ordered keys

\* _valuesStart and _valuesEnd: a sequence of [key, val] in insertion order,
\* the order in which for-in visits the keys.
Has(m, key) == \E i \in 1..Len(m) : m[i].key = key

Get(m, key) ==
    IF Has(m, key)
    THEN m[CHOOSE i \in 1..Len(m) : m[i].key = key].val
    ELSE Undef

Put(m, key, v) ==
    IF Has(m, key)
    THEN [i \in 1..Len(m) |-> IF m[i].key = key THEN [key |-> key, val |-> v] ELSE m[i]]
    ELSE Append(m, [key |-> key, val |-> v])

KeySet(m) == {m[i].key : i \in 1..Len(m)}

\* The target object: a function from Keys, Absent where it has no such
\* property.  Reading a missing property gives undefined.
Read(obj, p) == IF obj[p] = Absent THEN Undef ELSE obj[p]

\* ------------------------------------------------- easing and interpolation

\* Phaser.Easing.Linear.None (k) and Phaser.Easing.Quadratic.In (k * k).
Ease(f, k) == IF f = "QuadIn" THEN JsMul(k, k) ELSE k

\* Phaser.Math.linear
Linear(p0, p1, t) == JsAdd(JsMul(JsSub(p1, p0), t), p0)

\* v[i] of an Array, 0-based; undefined outside it.
At(v, i) == IF i >= 0 /\ i < Len(v) THEN v[i + 1] ELSE Undef

\* Phaser.Math.linearInterpolation, for an eased progress k in [0, 1].
LinearInterpolation(v, k) ==
    IF ~IsNum(k) THEN NaN
    ELSE LET m == Len(v) - 1
             f == Rat(m * k.n, k.d)
             i == f.n \div f.d
         IN  Linear(At(v, i), At(v, IF i + 1 > m THEN m ELSE i + 1),
                    JsSub(f, N(i)))

\* Phaser.Math.factorial
RECURSIVE Factorial(_)
Factorial(value) == IF value = 0 THEN 1 ELSE value * Factorial(value - 1)

\* Phaser.Math.bernstein
Bernstein(n, i) == (Factorial(n) \div Factorial(i)) \div Factorial(n - i)

\* Math.pow(k, e) of a number or NaN k for a whole e >= 0: 1 when e is 0.
RECURSIVE Power(_, _)
Power(k, e) ==
    IF e = 0 THEN N(1)
    ELSE LET r == Power(k, e - 1)
         IN  IF IsNum(k) /\ IsNum(r) THEN Rat(r.n * k.n, r.d * k.d) ELSE NaN

\* The i-th term of the sum of Phaser.Math.bezierInterpolation:
\* Math.pow(1 - k, n - i) * Math.pow(k, i) * v[i] * this.bernstein(n, i),
\* where only v[i] may be other than a number or NaN.
BezierTerm(v, k, i) ==
    LET n == Len(v) - 1
        p == Power(IF IsNum(k) THEN Rat(k.d - k.n, k.d) ELSE NaN, n - i)
        q == Power(k, i)
        x == ToNumber(At(v, i))
    IN  IF IsNum(p) /\ IsNum(q) /\ IsNum(x)
        THEN Rat(p.n * q.n * x.n * Bernstein(n, i), p.d * q.d * x.d)
        ELSE NaN

\* b after the terms 0..i of the sum, b and every term a number or NaN
RECURSIVE BezierSum(_, _, _)
BezierSum(v, k, i) ==
    IF i < 0 THEN N(0)
    ELSE LET b == BezierSum(v, k, i - 1)
             term == BezierTerm(v, k, i)
         IN  IF IsNum(b) /\ IsNum(term)
             THEN Rat(b.n * term.d + term.n * b.d, b.d * term.d)
             ELSE NaN

\* Phaser.Math.bezierInterpolation
BezierInterpolation(v, k) == BezierSum(v, k, Len(v) - 1)

InterpolationNames == {"linear", "bezier"}

\* this._interpolationFunction(v, k)
Interpolate(f, v, k) ==
    IF f = "bezier" THEN BezierInterpolation(v, k)
    ELSE LinearInterpolation(v, k)

\* ------------------------------------------------------------------ events

Ev(name, id, v) == [e |-> name, k |-> id, v |-> v]

Emit(T, name, id, v) == [T EXCEPT !.events = Append(@, Ev(name, id, v))]

\* --------------------------------------------------------- the tween's state

VARIABLES
    object,          \* _object: the target's properties
    valuesStart,     \* _valuesStart
    valuesEnd,       \* _valuesEnd
    duration,        \* _duration
    delayTime,       \* _delayTime
    startTime,       \* _startTime (null reads as 0 in every use)
    loop,            \* _loop
    yoyo,            \* _yoyo
    yoyoCount,       \* _yoyoCount
    easingFunction,  \* _easingFunction, by name
    isRunning,       \* isRunning
    paused,          \* _paused (undefined reads as false)
    chainedTweens,   \* _chainedTweens, by id
    now,             \* game.time.now
    pauseStarted,    \* the clock's note of when the game was paused
    pauseDuration,   \* game.time.pauseDuration
    managerTweens,   \* the list of tweens the manager holds
    chained,         \* per chained tween: isRunning, _startTime, start() calls
    op,              \* the last call made
    ret,             \* what it returned: "true", "false", "this", "throw"
    events,          \* what it did, in order: writes, dispatches, starts
    thrown,          \* whether it threw
    phase,           \* "new", "configured" (to was called), "started"
    configured,      \* the properties as they were given to to()
    faulted,         \* whether any call has thrown
    completions,     \* onComplete dispatches so far
    falseReturns,    \* update calls that returned false so far
    startSignals,    \* onStart dispatches so far
    pauses,          \* pause() calls so far
    pausePhase,      \* "none", "paused", "resumed" within the current leg
    startAtPause,    \* _startTime when pause() was last called
    original,        \* the target's properties when the tween was constructed
    args,            \* the arguments of the last call, when it was to()
    calls,           \* calls made by a caller of the public methods
    game,            \* game: the game the tween belongs to, or "null"
    manager,         \* _manager: the game whose TweenManager it is
    otherManagerTweens,     \* the list the other game's manager holds
    interpolationFunction   \* _interpolationFunction, by name

vars == <<object, valuesStart, valuesEnd, duration, delayTime, startTime, loop,
          yoyo, yoyoCount, easingFunction, isRunning, paused, chainedTweens,
          now, pauseStarted, pauseDuration, managerTweens, chained, op, ret,
          events, thrown, phase, configured, faulted, completions, falseReturns,
          startSignals, pauses, pausePhase, startAtPause, original, args,
          calls, game, manager, otherManagerTweens, interpolationFunction>>

\* The state as one record, which the methods below transform.
Self ==
    [object |-> object, valuesStart |-> valuesStart, valuesEnd |-> valuesEnd,
     duration |-> duration, delayTime |-> delayTime, startTime |-> startTime,
     loop |-> loop, yoyo |-> yoyo, yoyoCount |-> yoyoCount,
     easingFunction |-> easingFunction, isRunning |-> isRunning,
     paused |-> paused, chainedTweens |-> chainedTweens, now |-> now,
     pauseStarted |-> pauseStarted, pauseDuration |-> pauseDuration,
     managerTweens |-> managerTweens, chained |-> chained, op |-> op,
     ret |-> ret, events |-> events, thrown |-> thrown, phase |-> phase,
     configured |-> configured,
     faulted |-> faulted, completions |-> completions,
     falseReturns |-> falseReturns, startSignals |-> startSignals,
     pauses |-> pauses, pausePhase |-> pausePhase,
     startAtPause |-> startAtPause, original |-> original,
     args |-> args, calls |-> calls, game |-> game, manager |-> manager,
     otherManagerTweens |-> otherManagerTweens,
     interpolationFunction |-> interpolationFunction]

Commit(T) ==
    /\ object' = T.object
    /\ valuesStart' = T.valuesStart
    /\ valuesEnd' = T.valuesEnd
    /\ duration' = T.duration
    /\ delayTime' = T.delayTime
    /\ startTime' = T.startTime
    /\ loop' = T.loop
    /\ yoyo' = T.yoyo
    /\ yoyoCount' = T.yoyoCount
    /\ easingFunction' = T.easingFunction
    /\ isRunning' = T.isRunning
    /\ paused' = T.paused
    /\ chainedTweens' = T.chainedTweens
    /\ now' = T.now
    /\ pauseStarted' = T.pauseStarted
    /\ pauseDuration' = T.pauseDuration
    /\ managerTweens' = T.managerTweens
    /\ chained' = T.chained
    /\ op' = T.op
    /\ ret' = T.ret
    /\ events' = T.events
    /\ thrown' = T.thrown
    /\ phase' = T.phase
    /\ configured' = T.configured
    /\ faulted' = T.faulted
    /\ completions' = T.completions
    /\ falseReturns' = T.falseReturns
    /\ startSignals' = T.startSignals
    /\ pauses' = T.pauses
    /\ pausePhase' = T.pausePhase
    /\ startAtPause' = T.startAtPause
    /\ original' = T.original
    /\ args' = T.args
    /\ calls' = T.calls
    /\ game' = T.game
    /\ manager' = T.manager
    /\ otherManagerTweens' = T.otherManagerTweens
    /\ interpolationFunction' = T.interpolationFunction

\* The arguments of to(), as the caller gave them.
Args(properties, dur, ease, autoStart, delay, lp, yy) ==
    [given |-> TRUE, properties |-> properties, duration |-> dur, ease |-> ease,
     autoStart |-> autoStart, delay |-> delay, loop |-> lp, yoyo |-> yy]

NoArgs == [Args(<<>>, 0, "null", FALSE, 0, FALSE, FALSE) EXCEPT !.given = FALSE]

\* A call begins: nothing returned, done or thrown yet.
Begin(T, name) ==
    [T EXCEPT !.op = name, !.ret = "none", !.events = <<>>, !.thrown = FALSE,
              !.args = NoArgs]

Return(T, value) ==
    [T EXCEPT !.ret = value,
              !.falseReturns = IF T.op = "update" /\ value = "false"
                               THEN @ + 1 ELSE @]

\* throw Error(...): the call, and every call around it, ends here.
Throw(T) ==
    [Emit(T, "throw", "A", Undef) EXCEPT !.thrown = TRUE, !.faulted = TRUE,
                                         !.ret = "throw"]

DefaultDuration == 1000

\* ------------------------------------------------------------------ games

\* The game the tween is constructed with, whose clock is now and whose
\* manager holds managerTweens, and a second game that is not running: its
\* clock stands at OtherNow and it was never paused.
FirstGame == "g1"
Games == {"g1", "g2"}
OtherNow == 3

\* this.game.time.now
GameNow(T) == IF T.game = FirstGame THEN T.now ELSE OtherNow

\* this.game.time.pauseDuration
GamePauseDuration(T) == IF T.game = FirstGame THEN T.pauseDuration ELSE 0

\* TweenManager.add: the manager keeps a list and pushes the tween onto it,
\* whether or not the list holds it already.
TweenManagerAdd(tweens, id) == Append(tweens, id)

\* TweenManager.remove: the first entry of the list that is the tween is
\* spliced out, the later ones stay.
TweenManagerRemove(tweens, id) ==
    LET at == {i \in 1..Len(tweens) : tweens[i] = id}
    IN  IF at = {} THEN tweens
        ELSE LET first == CHOOSE i \in at : \A j \in at : i <= j
             IN  SubSeq(tweens, 1, first - 1)
                     \o SubSeq(tweens, first + 1, Len(tweens))

\* this._manager.add(this)
ManagerAdd(T) ==
    IF T.manager = FirstGame
    THEN [T EXCEPT !.managerTweens = TweenManagerAdd(@, "A")]
    ELSE [T EXCEPT !.otherManagerTweens = TweenManagerAdd(@, "A")]

\* this._manager.remove(this)
ManagerRemove(T) ==
    IF T.manager = FirstGame
    THEN [T EXCEPT !.managerTweens = TweenManagerRemove(@, "A")]
    ELSE [T EXCEPT !.otherManagerTweens = TweenManagerRemove(@, "A")]

\* ------------------------------------------------------------------ start

\* Faulty variant: only null is rejected, a missing property is not.
NullOrMissing_NullOnly(obj, p) == obj[p] = Null

\* this._object[property] === null || !(property in this._object)
NullOrMissing(obj, p) == obj[p] = Null \/ obj[p] = Absent

\* Faulty variant: an empty keyframe Array is not skipped.
IsEmptyKeyframes_Never(e) == FALSE

\* this._valuesEnd[property].length === 0
IsEmptyKeyframes(e) == Len(e.s) = 0

\* [this._object[property]].concat(this._valuesEnd[property])
WithStartInFront(cur, e) == Arr(<<cur>> \o e.s)

\* this._manager.add(this); this.onStart.dispatch(this._object)
Register(T) ==
    LET T1 == ManagerAdd(T)
        T2 == Emit(T1, "add", "A", Undef)
        T3 == Emit(T2, "onStart", "A", Undef)
    IN  [T3 EXCEPT !.startSignals = @ + 1]

\* Faulty variant: the error is raised and the loop goes on to the next key.
RECURSIVE StartLoop_ContinuesAfterThrow(_, _, _)
StartLoop_ContinuesAfterThrow(T, i, looped) ==
    IF i > Len(T.valuesEnd) THEN T
    ELSE LET p == T.valuesEnd[i].key
             e == T.valuesEnd[i].val
             cur == Read(T.object, p)
         IN  IF NullOrMissing(T.object, p)
             THEN StartLoop_ContinuesAfterThrow(Throw(T), i + 1, looped)
             ELSE IF IsArr(e) /\ IsEmptyKeyframes(e)
                  THEN StartLoop_ContinuesAfterThrow(T, i + 1, looped)
                  ELSE LET T1 == IF IsArr(e)
                                 THEN [T EXCEPT !.valuesEnd[i].val =
                                                    WithStartInFront(cur, e)]
                                 ELSE T
                           T2 == IF looped THEN T1
                                 ELSE [T1 EXCEPT !.valuesStart = Put(@, p, cur)]
                       IN  StartLoop_ContinuesAfterThrow(T2, i + 1, looped)

\* The body of for (var property in this._valuesEnd), from the i-th key on.
RECURSIVE StartLoop(_, _, _)
StartLoop(T, i, looped) ==
    IF i > Len(T.valuesEnd) THEN T
    ELSE LET p == T.valuesEnd[i].key
             e == T.valuesEnd[i].val
             cur == Read(T.object, p)
         IN  IF NullOrMissing(T.object, p) THEN Throw(T)
             ELSE IF IsArr(e) /\ IsEmptyKeyframes(e)
                  THEN StartLoop(T, i + 1, looped)
                  ELSE LET T1 == IF IsArr(e)
                                 THEN [T EXCEPT !.valuesEnd[i].val =
                                                    WithStartInFront(cur, e)]
                                 ELSE T
                           T2 == IF looped THEN T1
                                 ELSE [T1 EXCEPT !.valuesStart = Put(@, p, cur)]
                       IN  StartLoop(T2, i + 1, looped)

\* Faulty variant: an internal restart registers and dispatches onStart too.
start_AlwaysRegisters(T, looped) ==
    LET T1 == Register(T)
        T2 == [T1 EXCEPT !.startTime = GameNow(T) + T.delayTime,
                         !.isRunning = TRUE,
                         !.pausePhase = "none",
                         !.startAtPause = 0,
                         !.phase = "started"]
        T3 == StartLoop(T2, 1, looped)
    IN  IF T.game = "null" THEN Return(T, "undefined")
        ELSE IF T3.thrown THEN T3 ELSE Return(T3, "this")

\* Faulty variant: an internal restart begins at once, without the delay.
start_NoDelayOnRestart(T, looped) ==
    LET T1 == IF looped THEN T ELSE Register(T)
        T2 == [T1 EXCEPT !.startTime = IF looped THEN GameNow(T)
                                       ELSE GameNow(T) + T.delayTime,
                         !.isRunning = TRUE,
                         !.pausePhase = "none",
                         !.startAtPause = 0,
                         !.phase = "started"]
        T3 == StartLoop(T2, 1, looped)
    IN  IF T.game = "null" THEN Return(T, "undefined")
        ELSE IF T3.thrown THEN T3 ELSE Return(T3, "this")

\* start(looped).  _object is bound; the call returns at once, with
\* undefined, when game is null.
start(T, looped) ==
    LET T1 == IF looped THEN T ELSE Register(T)
        T2 == [T1 EXCEPT !.startTime = GameNow(T) + T.delayTime,
                         !.isRunning = TRUE,
                         !.pausePhase = "none",
                         !.startAtPause = 0,
                         !.phase = "started"]
        T3 == StartLoop(T2, 1, looped)
    IN  IF T.game = "null" THEN Return(T, "undefined")
        ELSE IF T3.thrown THEN T3 ELSE Return(T3, "this")

\* ------------------------------------------------------ reverse and reset

\* The body of for (var property in this._valuesStart) of reverse().
RECURSIVE SwapLoop(_, _)
SwapLoop(T, i) ==
    IF i > Len(T.valuesStart) THEN T
    ELSE LET p == T.valuesStart[i].key
             tempObj == T.valuesStart[i].val
             T1 == [T EXCEPT !.valuesStart[i].val = Get(T.valuesEnd, p)]
             T2 == [T1 EXCEPT !.valuesEnd = Put(@, p, tempObj)]
         IN  SwapLoop(T2, i + 1)

reverse(T) ==
    LET T1 == SwapLoop(T, 1)
        T2 == [T1 EXCEPT !.yoyoCount = @ + 1]
    IN  start(T2, TRUE)

\* Faulty variant: reset() restarts without putting the start values back.
reset_WithoutRestore(T) == start(T, TRUE)

\* The body of for (var property in this._valuesStart) of reset().
RECURSIVE RestoreLoop(_, _)
RestoreLoop(T, i) ==
    IF i > Len(T.valuesStart) THEN T
    ELSE LET p == T.valuesStart[i].key
             v == T.valuesStart[i].val
             T1 == [T EXCEPT !.object[p] = v]
         IN  RestoreLoop(Emit(T1, "restore", p, v), i + 1)

reset(T) == start(RestoreLoop(T, 1), TRUE)

\* ------------------------------------------------------------------ update

\* Faulty variant: the delay window is not checked.
NothingToDo_PausedOnly(T, time) == T.paused

\* this._paused || time < this._startTime
NothingToDo(T, time) == T.paused \/ time < T.startTime

\* Faulty variant: the elapsed fraction is not clamped to 1.
Elapsed_Unclamped(time, started, dur) == Rat(time - started, dur)

\* _tempElapsed: (time - _startTime) / _duration, at most 1
Elapsed(time, started, dur) ==
    IF time - started > dur THEN N(1) ELSE Rat(time - started, dur)

\* Faulty variant: the end value is scaled, not the distance to it.
Blend_EndScaled(s, e, t) == JsAdd(s, JsMul(e, t))

\* _valuesStart[p] + (_valuesEnd[p] - _valuesStart[p]) * _tempValue
Blend(s, e, t) == JsAdd(s, JsMul(JsSub(e, s), t))

\* The value update() gives a property.
Tweened(f, s, e, t) ==
    IF IsArr(e) THEN Interpolate(f, e.s, t) ELSE Blend(s, e, t)

\* The body of for (var property in this._valuesStart) of update().
RECURSIVE WriteLoop(_, _, _)
WriteLoop(T, i, t) ==
    IF i > Len(T.valuesStart) THEN T
    ELSE LET p == T.valuesStart[i].key
             v == Tweened(T.interpolationFunction, T.valuesStart[i].val,
                          Get(T.valuesEnd, p), t)
             T1 == [T EXCEPT !.object[p] = v]
         IN  WriteLoop(Emit(T1, "write", p, v), i + 1, t)

\* this._chainedTweens[i].start() of a tween on which to() was never called:
\* it joins the manager, dispatches its onStart and is running from now on.
ChainedStart(T, id) ==
    LET T1 == Emit(T, "start", id, Undef)
        T2 == [T1 EXCEPT !.managerTweens = TweenManagerAdd(@, id)]
        T3 == Emit(Emit(T2, "add", id, Undef), "onStart", id, Undef)
    IN  [T3 EXCEPT !.chained[id] = [isRunning |-> TRUE,
                                    startTime |-> T.now,
                                    starts |-> @.starts + 1]]

RECURSIVE StartChained(_, _)
StartChained(T, i) ==
    IF i > Len(T.chainedTweens) THEN T
    ELSE StartChained(ChainedStart(T, T.chainedTweens[i]), i + 1)

\* Faulty variant: the chained tweens are started before onComplete is dispatched.
Complete_ChainFirst(T) ==
    LET T1 == StartChained(T, 1)
        T2 == Emit(T1, "onComplete", "A", Undef)
    IN  [T2 EXCEPT !.completions = @ + 1]

\* this.onComplete.dispatch(this._object) and the loop over _chainedTweens
Complete(T) ==
    LET T1 == Emit(T, "onComplete", "A", Undef)
        T2 == [T1 EXCEPT !.completions = @ + 1]
    IN  StartChained(T2, 1)

\* A restart made inside update(): update returns true unless it threw.
Restarted(T) == IF T.thrown THEN T ELSE Return(T, "true")

\* Faulty variant: with yoyo the tween is reversed at the end of every leg.
Finish_YoyoReversesForEver(T) ==
    IF T.yoyo
    THEN Restarted(reverse(T))
    ELSE IF T.loop
         THEN Restarted(reset([T EXCEPT !.yoyoCount = 0]))
         ELSE LET T1 == Complete(T)
                  T2 == IF Len(T1.chainedTweens) = 0
                        THEN [T1 EXCEPT !.isRunning = FALSE]
                        ELSE T1
              IN  Return(T2, "false")

\* if (this._tempElapsed == 1) { ... }
Finish(T) ==
    IF T.yoyo
    THEN IF T.yoyoCount = 0
         THEN Restarted(reverse(T))
         ELSE IF ~T.loop
              THEN Return(Complete(T), "false")
              ELSE Restarted(reverse([T EXCEPT !.yoyoCount = 0]))
    ELSE IF T.loop
         THEN Restarted(reset([T EXCEPT !.yoyoCount = 0]))
         ELSE LET T1 == Complete(T)
                  T2 == IF Len(T1.chainedTweens) = 0
                        THEN [T1 EXCEPT !.isRunning = FALSE]
                        ELSE T1
              IN  Return(T2, "false")

update(T, time) ==
    IF NothingToDo(T, time) THEN Return(T, "true")
    ELSE LET tempElapsed == Elapsed(time, T.startTime, T.duration)
             tempValue == Ease(T.easingFunction, tempElapsed)
             T1 == WriteLoop(T, 1, tempValue)
             T2 == Emit(T1, "onUpdate", "A", tempValue)
         IN  IF tempElapsed = N(1) THEN Finish(T2) ELSE Return(T2, "true")

\* ------------------------------------------------- to, chain, pause, resume

\* Faulty variant: the delay is assigned whatever it is.
to_DelayAlwaysSet(T, properties, dur, ease, autoStart, delay, lp, yy) ==
    LET T1 == [T EXCEPT !.duration = dur,
                        !.valuesEnd = properties,
                        !.easingFunction = IF ease # "null" THEN ease ELSE @,
                        !.delayTime = delay,
                        !.loop = lp,
                        !.yoyo = yy,
                        !.yoyoCount = 0,
                        !.phase = "configured",
                        !.configured = properties]
    IN  IF autoStart THEN start(T1, FALSE) ELSE Return(T1, "this")

\* to(properties, duration, ease, autoStart, delay, loop, yoyo); ease "null"
\* is the null default.
to(T, properties, dur, ease, autoStart, delay, lp, yy) ==
    LET T1 == [T EXCEPT !.duration = dur,
                        !.valuesEnd = properties,
                        !.easingFunction = IF ease # "null" THEN ease ELSE @,
                        !.delayTime = IF delay > 0 THEN delay ELSE @,
                        !.loop = lp,
                        !.yoyo = yy,
                        !.yoyoCount = 0,
                        !.phase = "configured",
                        !.configured = properties]
    IN  IF autoStart THEN start(T1, FALSE) ELSE Return(T1, "this")

chain(T, id) == Return([T EXCEPT !.chainedTweens = Append(@, id)], "this")

pause(T) ==
    Return([T EXCEPT !.paused = TRUE,
                     !.pauses = @ + 1,
                     !.pausePhase = IF T.phase = "started" THEN "paused" ELSE @,
                     !.startAtPause = T.startTime], "none")

\* Faulty variant: resume() leaves _startTime where it was.
resume_WithoutShift(T) ==
    Return([T EXCEPT !.paused = FALSE,
                     !.pausePhase = IF @ = "paused" THEN "resumed" ELSE @],
           "none")

\* resume(); reading this.game.time throws a TypeError when game is null.
resume(T) ==
    IF T.game = "null" THEN Throw([T EXCEPT !.paused = FALSE])
    ELSE Return([T EXCEPT !.paused = FALSE,
                          !.startTime = @ + GamePauseDuration(T),
                          !.pausePhase = IF @ = "paused" THEN "resumed" ELSE @],
                "none")

\* loop(value)
setLoop(T, value) == Return([T EXCEPT !.loop = value], "this")

\* yoyo(value)
setYoyo(T, value) == Return([T EXCEPT !.yoyo = value, !.yoyoCount = 0], "this")

\* stop(): _manager is bound, so the tween is removed from it.
stop(T) ==
    LET T1 == ManagerRemove(T)
        T2 == Emit(T1, "remove", "A", Undef)
    IN  Return([T2 EXCEPT !.isRunning = FALSE], "this")

\* clear()
clear(T) == Return([T EXCEPT !.chainedTweens = <<>>], "this")

\* set delay(amount)
setDelay(T, amount) == Return([T EXCEPT !.delayTime = amount], "none")

\* set easing(easing)
setEasing(T, easing) == Return([T EXCEPT !.easingFunction = easing], "none")

\* set interpolation(interpolation)
setInterpolation(T, interpolation) ==
    Return([T EXCEPT !.interpolationFunction = interpolation], "none")

\* set parent(value): game is assigned, then reading value.tweens throws a
\* TypeError when value is null and _manager stays what it was.
setParent(T, value) ==
    LET T1 == [T EXCEPT !.game = value]
    IN  IF value = "null" THEN Throw(T1)
        ELSE Return([T1 EXCEPT !.manager = value], "none")

\* The running game's clock notes when the game is paused, and on resume how
\* long it was; the tween is paused and resumed with the game it belongs to.
ClockPause(T) ==
    IF T.game = FirstGame THEN [T EXCEPT !.pauseStarted = T.now] ELSE T

ClockResume(T) ==
    IF T.game = FirstGame
    THEN [T EXCEPT !.pauseDuration = T.now - T.pauseStarted, !.pauseStarted = 0]
    ELSE T

\* ------------------------------------------------------------ the inputs

\* The target: x is a number, null, undefined or missing; y is a number.
Targets ==
    {[key \in Keys |-> IF key = "x" THEN vx ELSE N(4)] :
        vx \in {N(0), Null, Undef, Absent}}

\* End values: a number, no keyframes, two keyframes.
EndValues(key) ==
    IF key = "x" THEN {N(8), Arr(<<>>), Arr(<<N(2), N(8)>>)}
    ELSE {N(6)}

\* The properties given to to(): every ordered choice of distinct keys.
PropertyMaps ==
    {<<>>}
    \cup {<<[key |-> a, val |-> v]>> : a \in Keys, v \in EndValues("x") \cup EndValues("y")}
    \cup {<<[key |-> a, val |-> v], [key |-> b, val |-> w]>> :
            a \in Keys, b \in Keys,
            v \in EndValues("x") \cup EndValues("y"),
            w \in EndValues("x") \cup EndValues("y")}

WellFormed(m) ==
    /\ \A i \in 1..Len(m) : m[i].val \in EndValues(m[i].key)
    /\ \A i, j \in 1..Len(m) : i # j => m[i].key # m[j].key

Properties == {m \in PropertyMaps : WellFormed(m)}

\* The properties a caller of the public methods gives to to(): one key.
OneProperty == {m \in Properties : Len(m) = 1}

\* ----------------------------------------------------------------- actions

\* new Tween(object, game)
Init ==
    /\ object \in Targets
    /\ valuesStart = <<>>
    /\ valuesEnd = <<>>
    /\ duration = DefaultDuration
    /\ delayTime = 0
    /\ startTime = 0
    /\ loop = FALSE
    /\ yoyo = FALSE
    /\ yoyoCount = 0
    /\ easingFunction = "Linear"
    /\ isRunning = FALSE
    /\ paused = FALSE
    /\ chainedTweens = <<>>
    /\ now = 0
    /\ pauseStarted = 0
    /\ pauseDuration = 0
    /\ managerTweens = <<>>
    /\ chained = [id \in {ChainIds[i] : i \in 1..Len(ChainIds)} |->
                    [isRunning |-> FALSE, startTime |-> 0, starts |-> 0]]
    /\ op = "new"
    /\ ret = "none"
    /\ events = <<>>
    /\ thrown = FALSE
    /\ phase = "new"
    /\ configured = <<>>
    /\ faulted = FALSE
    /\ completions = 0
    /\ falseReturns = 0
    /\ startSignals = 0
    /\ pauses = 0
    /\ pausePhase = "none"
    /\ startAtPause = 0
    /\ original = object
    /\ args = NoArgs
    /\ calls = 0
    /\ game = FirstGame
    /\ manager = FirstGame
    /\ otherManagerTweens = <<>>
    /\ interpolationFunction = "linear"

\* tween.to(...), once, on the new tween
ToCall ==
    /\ phase = "new"
    /\ \E properties \in Properties, dur \in Durations,
          ease \in {"null"} \cup (EasingNames \ {"Linear"}),
          autoStart \in BOOLEAN, delay \in Delays,
          lp \in BOOLEAN, yy \in BOOLEAN :
            Commit(to([Begin(Self, "to") EXCEPT
                            !.args = Args(properties, dur, ease, autoStart,
                                          delay, lp, yy)],
                      properties, dur, ease, autoStart, delay, lp, yy))

\* tween.chain(other), before the tween is started
ChainCall ==
    /\ phase = "configured"
    /\ Len(chainedTweens) < Len(ChainIds)
    /\ Commit(chain(Begin(Self, "chain"), ChainIds[Len(chainedTweens) + 1]))

\* tween.start()
StartCall ==
    /\ phase = "configured"
    /\ Commit(start(Begin(Self, "start"), FALSE))

\* A frame of the game loop: the clock advances by dt and the manager calls
\* tween.update(game.time.now).  dt = 0 is a second call in the same frame.
\* An Error thrown by start() is caught nowhere: the run ends there.
UpdateCall ==
    /\ phase = "started"
    /\ ~faulted
    /\ completions < MaxCompletions
    /\ \E dt \in 0..MaxStep :
        /\ now + dt <= MaxTime
        /\ Commit(update([Begin(Self, "update") EXCEPT !.now = now + dt],
                         now + dt))

\* The game is paused: the clock notes it and the tween is paused.
PauseCall ==
    /\ phase = "started"
    /\ ~faulted
    /\ ~paused
    /\ pauses < MaxPauses
    /\ Commit(pause(ClockPause(Begin(Self, "pause"))))

\* The game resumes: the clock measures the pause and the tween resumes.
ResumeCall ==
    /\ paused
    /\ Commit(resume(ClockResume(Begin(Self, "resume"))))

\* ---------------------------------------- a caller of the public methods

\* A call of a public method by a caller that may call any of them in any
\* order, the tween's own update() included, until a call throws.
CanCall == calls < MaxCalls /\ ~faulted

Called(T) == [T EXCEPT !.calls = @ + 1]

ApiTo ==
    /\ CanCall
    /\ calls < MaxConfigs
    /\ \E properties \in OneProperty, dur \in Durations,
          ease \in {"null"} \cup (EasingNames \ {"Linear"}),
          autoStart \in BOOLEAN, delay \in AnyDelays,
          lp \in BOOLEAN, yy \in BOOLEAN :
            Commit(Called(to([Begin(Self, "to") EXCEPT
                                    !.args = Args(properties, dur, ease,
                                                  autoStart, delay, lp, yy)],
                             properties, dur, ease, autoStart, delay, lp, yy)))

ApiLoop ==
    /\ CanCall
    /\ \E value \in BOOLEAN :
            Commit(Called(setLoop(Begin(Self, "loop"), value)))

ApiYoyo ==
    /\ CanCall
    /\ \E value \in BOOLEAN :
            Commit(Called(setYoyo(Begin(Self, "yoyo"), value)))

ApiStart ==
    /\ CanCall
    /\ Commit(Called(start(Begin(Self, "start"), FALSE)))

ApiReverse ==
    /\ CanCall
    /\ Commit(Called(reverse(Begin(Self, "reverse"))))

ApiReset ==
    /\ CanCall
    /\ Commit(Called(reset(Begin(Self, "reset"))))

\* The clock advances by dt and update(game.time.now) is called.
ApiUpdate ==
    /\ CanCall
    /\ \E dt \in 0..MaxStep :
        /\ now + dt <= MaxTime
        /\ Commit(Called(update([Begin(Self, "update") EXCEPT !.now = now + dt],
                                now + dt)))

ApiPause ==
    /\ CanCall
    /\ ~paused
    /\ Commit(Called(pause(ClockPause(Begin(Self, "pause")))))

ApiResume ==
    /\ CanCall
    /\ paused
    /\ Commit(Called(resume(ClockResume(Begin(Self, "resume")))))

\* tween.delay = amount
ApiDelay ==
    /\ CanCall
    /\ \E amount \in AnyDelays :
            Commit(Called(setDelay(Begin(Self, "delay"), amount)))

\* tween.easing = easing
ApiEasing ==
    /\ CanCall
    /\ \E easing \in EasingNames :
            Commit(Called(setEasing(Begin(Self, "easing"), easing)))

\* tween.interpolation = interpolation
ApiInterpolation ==
    /\ CanCall
    /\ \E interpolation \in InterpolationNames :
            Commit(Called(setInterpolation(Begin(Self, "interpolation"),
                                           interpolation)))

\* tween.parent = value
ApiParent ==
    /\ CanCall
    /\ \E value \in Games \cup {"null"} :
            Commit(Called(setParent(Begin(Self, "parent"), value)))

ApiStop ==
    /\ CanCall
    /\ Commit(Called(stop(Begin(Self, "stop"))))

ApiClear ==
    /\ CanCall
    /\ Commit(Called(clear(Begin(Self, "clear"))))

NextApi ==
    \/ ApiTo
    \/ ApiLoop
    \/ ApiYoyo
    \/ ApiStart
    \/ ApiReverse
    \/ ApiReset
    \/ ApiUpdate
    \/ ApiPause
    \/ ApiResume
    \/ ApiStop
    \/ ApiClear
    \/ ApiDelay
    \/ ApiEasing
    \/ ApiInterpolation
    \/ ApiParent

SpecApi == Init /\ [][NextApi]_vars

\* The game loop on a tween that is configured by to() once and belongs to
\* the game it was constructed with; the accessors delay, easing,
\* interpolation and parent are called in NextApi.
Next ==
    \/ ToCall
    \/ ChainCall
    \/ StartCall
    \/ UpdateCall
    \/ PauseCall
    \/ ResumeCall

Spec == Init /\ [][Next]_vars

\* ------------------------------------------- the game loop that keeps going

MaxOf(S) == CHOOSE m \in S : \A n \in S : n <= m

\* No tween without loop is still to complete at this time: a leg starts at
\* most MaxOf(Delays) after the clock's time and ends with the first frame
\* that is MaxOf(Durations) later, there are two legs at most, and the pauses
\* that held the tween up were over by MaxTime.
LiveMaxTime == MaxTime + 2 * (MaxOf(Delays) + MaxOf(Durations) + MaxStep - 1)

\* The clock keeps advancing for a tween without loop that is not paused and
\* has not completed; for any other it stops at MaxTime.
ClockRuns(dt) ==
    now + dt <= (IF ~loop /\ ~paused /\ completions = 0 THEN LiveMaxTime
                 ELSE MaxTime)

\* tween.to(...) with autoStart, of one property, on the new tween
LiveToCall ==
    /\ phase = "new"
    /\ \E properties \in OneProperty, dur \in Durations,
          ease \in {"null"} \cup (EasingNames \ {"Linear"}),
          delay \in Delays, lp \in BOOLEAN, yy \in BOOLEAN :
            Commit(to([Begin(Self, "to") EXCEPT
                            !.args = Args(properties, dur, ease, TRUE, delay,
                                          lp, yy)],
                      properties, dur, ease, TRUE, delay, lp, yy))

\* A tick of the game loop: the clock advances and the manager calls
\* tween.update(game.time.now).
LiveUpdateCall ==
    /\ phase = "started"
    /\ ~faulted
    /\ completions < MaxCompletions
    /\ \E dt \in 1..MaxStep :
        /\ ClockRuns(dt)
        /\ Commit(update([Begin(Self, "update") EXCEPT !.now = now + dt],
                         now + dt))

NextLive ==
    \/ LiveToCall
    \/ LiveUpdateCall
    \/ PauseCall
    \/ ResumeCall

\* The steps of NextLive that advance the clock are those of LiveUpdateCall,
\* and the steps that end a pause are those of ResumeCall.
Tick ==
    /\ phase = "started"
    /\ ~faulted
    /\ completions < MaxCompletions
    /\ \E dt \in 1..MaxStep : ClockRuns(dt) /\ now' = now + dt

Unpause == paused /\ paused' = FALSE

\* The game loop ticks for ever, and a paused game is resumed: weak fairness
\* of LiveUpdateCall and of ResumeCall, stated on the variable each changes.
SpecLive ==
    Init /\ [][NextLive]_vars /\ WF_now(Tick) /\ WF_paused(Unpause)

\* ----------------------------------------------------------------- claims

Range(q) == {q[i] : i \in 1..Len(q)}

\* The positions in the last call's events of the events named name.
Positions(name) == {i \in 1..Len(events) : events[i].e = name}

\* The last call was an update on which the elapsed fraction reached 1.
ReachedOne == op = "update" /\ Ev("onUpdate", "A", N(1)) \in Range(events)

\* What a property is worth at the end of a leg towards e.
EndOf(e) == IF IsArr(e) THEN e.s[Len(e.s)] ELSE e

IsScalar(v) == v.k \in {"num", "undef", "nan"}

\* C1: an update at startTime + e, 0 <= e <= duration, of a tween that is not
\* paused writes to every scalar property start + (end - start) * easing(e/d),
\* computed here directly from the captured start, the end value and the
\* easing function.
C1_UpdateWritesEasedBlend ==
    [][(/\ op' = "update"
        /\ ~paused
        /\ now' >= startTime
        /\ now' <= startTime + duration)
       => \A i \in 1..Len(valuesStart) :
            LET p == valuesStart[i].key
                s == valuesStart[i].val
                e == Get(valuesEnd, p)
                k == Ease(easingFunction, Rat(now' - startTime, duration))
            IN  (IsScalar(s) /\ IsScalar(e))
                    => Ev("write", p, JsAdd(s, JsMul(JsSub(e, s), k)))
                            \in Range(events')]_vars

\* C1 witness: an update under quadratic easing wrote a value strictly
\* between two integers, so strictly inside a leg.
C1_Witness ==
    /\ op = "update"
    /\ easingFunction = "QuadIn"
    /\ \E i \in Positions("write") :
            events[i].v.k = "num" /\ events[i].v.d > 1

\* C2 as claimed: a tween without loop and yoyo returns false from update
\* once only, and an update after that writes nothing to the target.
C2_FalseExactlyOnce ==
    (~loop /\ ~yoyo)
        => /\ falseReturns <= 1
           /\ (op = "update" /\ falseReturns = 1 /\ ret # "false")
                    => Positions("write") = {}

\* C2 amended: without loop and yoyo, update returns false exactly when the
\* tween is not paused and the time has reached startTime + duration, on the
\* first such call and on every later one; each of them writes every
\* property and dispatches onComplete again, and one that follows an earlier
\* false return leaves the target's values as they are.
C2_FalseFromCompletionOn ==
    /\ []((op = "update" /\ ~loop /\ ~yoyo)
            => /\ ret \in {"true", "false"}
               /\ (ret = "false") <=> (~paused /\ now >= startTime + duration)
               /\ (ret = "false")
                    => /\ Positions("onComplete") # {}
                       /\ \A i \in 1..Len(valuesStart) :
                            \E j \in Positions("write") :
                                events[j].k = valuesStart[i].key)
    /\ [][(op' = "update" /\ ~loop /\ ~yoyo /\ falseReturns >= 1
            /\ ret' = "false")
          => object' = object]_vars

\* C2 witness: the second update that returned false.
C2_Witness ==
    /\ op = "update"
    /\ ~loop /\ ~yoyo
    /\ ret = "false"
    /\ falseReturns = 2
    /\ Len(valuesStart) > 0

\* C3: with yoyo and without loop, the first update that reaches the end of a
\* leg leaves every property at its end value, has reversed the tween, returns
\* true and completes nothing; the update that returns false leaves every
\* property at the start value captured by start(), and has dispatched
\* onComplete.  (For targets whose captured start values are numbers.)
C3_YoyoThereAndBack ==
    (/\ op = "update"
     /\ yoyo /\ ~loop
     /\ yoyoCount = 1
     /\ \A i \in 1..Len(valuesStart) :
            IsNum(Get(valuesEnd, valuesStart[i].key)))
    => /\ (ReachedOne /\ falseReturns = 0)
            => /\ ret = "true"
               /\ completions = 0
               /\ \A i \in 1..Len(valuesStart) :
                    object[valuesStart[i].key] = EndOf(valuesStart[i].val)
       /\ (ret = "false")
            => /\ Positions("onComplete") # {}
               /\ \A i \in 1..Len(valuesStart) :
                    object[valuesStart[i].key]
                        = Get(valuesEnd, valuesStart[i].key)

\* C4: with loop and without yoyo every update returns true, onComplete is
\* never dispatched and no chained tween is ever started; an update that
\* reaches the end of a cycle writes the end values, then puts every captured
\* start value back on the target, keeps the start values and restarts at
\* now + delay.
C4_LoopRestoresAndRestarts ==
    /\ []((loop /\ ~yoyo /\ phase = "started")
            => /\ completions = 0
               /\ \A id \in DOMAIN chained : chained[id].starts = 0
               /\ (op = "update") => (ret = "true"))
    /\ [][(/\ op' = "update"
           /\ loop /\ ~yoyo
           /\ ~paused
           /\ now' >= startTime + duration)
          => /\ valuesStart' = valuesStart
             /\ startTime' = now' + delayTime
             /\ \A i \in 1..Len(valuesStart) :
                  LET p == valuesStart[i].key
                      s == valuesStart[i].val
                      e == Get(valuesEnd, p)
                  IN  /\ object'[p] = s
                      /\ \E j, k \in 1..Len(events') :
                            /\ j < k
                            /\ events'[j] = Ev("write", p,
                                    IF IsArr(e) THEN EndOf(e) ELSE
                                    JsAdd(s, JsSub(e, s)))
                            /\ events'[k] = Ev("restore", p, s)]_vars

\* C4 witness: a looping tween of duration 2 with chained tweens has ended
\* its second cycle (the first ended at 2 or 3, this one at 4 or later), and
\* x, tweened from 0 to 8, was written 8 and put back to 0.
C4_Witness ==
    /\ op = "update"
    /\ loop /\ ~yoyo
    /\ duration = 2 /\ delayTime = 0
    /\ chainedTweens # <<>>
    /\ startTime >= 4
    /\ Ev("write", "x", N(8)) \in Range(events)
    /\ Ev("restore", "x", N(0)) \in Range(events)
    /\ object["x"] = N(0)

\* C5: with loop and yoyo every update returns true and onComplete is never
\* dispatched; every update that reaches the end of a leg exchanges the start
\* and the end values, so that the legs run there and back for ever.
C5_LoopYoyoSwaps ==
    /\ []((loop /\ yoyo /\ op = "update")
            => (ret = "true" /\ completions = 0))
    /\ [][(/\ op' = "update"
           /\ loop /\ yoyo
           /\ ~paused
           /\ now' >= startTime + duration)
          => \A i \in 1..Len(valuesStart) :
                LET p == valuesStart[i].key
                IN  /\ Get(valuesStart', p) = Get(valuesEnd, p)
                    /\ Get(valuesEnd', p) = valuesStart[i].val]_vars

\* C6: the update that completes a tween without loop and yoyo writes the
\* properties, then dispatches onUpdate once, then onComplete once, then
\* calls start() on the chained tweens, each as often as it was chained and
\* in the order of chaining, and returns false.
C6_ChainStartedInsideUpdate ==
    (op = "update" /\ ~loop /\ ~yoyo /\ ret = "false")
    => /\ Cardinality(Positions("onUpdate")) = 1
       /\ Cardinality(Positions("onComplete")) = 1
       /\ \A i \in Positions("write"), j \in Positions("onUpdate") : i < j
       /\ \A i \in Positions("onUpdate"), j \in Positions("onComplete") : i < j
       /\ \A i \in Positions("onComplete"), j \in Positions("start") : i < j
       /\ Cardinality(Positions("start")) = Len(chainedTweens)
       /\ \A n \in 1..Len(chainedTweens) :
            \E j \in Positions("start") :
                /\ events[j].k = chainedTweens[n]
                /\ Cardinality({i \in Positions("start") : i < j}) = n - 1
       /\ \A n \in 1..Len(chainedTweens) :
            /\ chained[chainedTweens[n]].isRunning
            /\ chained[chainedTweens[n]].starts = completions
            /\ chainedTweens[n] \in Range(managerTweens)

\* C6 witness: a tween of two properties with B and C chained has completed.
C6_Witness ==
    /\ op = "update"
    /\ ~loop /\ ~yoyo
    /\ ret = "false"
    /\ completions = 1
    /\ chainedTweens = <<"B", "C">>
    /\ Len(valuesStart) = 2

\* C7: after pause() and resume() within a leg, every update gives the
\* target the values, and returns what, an update of the tween as it was
\* when it was paused gives at the time less the pause's duration.
C7_ResumeDiscountsPause ==
    [][(op' = "update" /\ pausePhase = "resumed")
       => LET copy == [Begin(Self, "update") EXCEPT
                            !.startTime = startAtPause,
                            !.now = now' - pauseDuration]
              u == update(copy, now' - pauseDuration)
          IN  /\ object' = u.object
              /\ ret' = u.ret]_vars

\* C7 witness: an update after a pause of some duration wrote a value
\* strictly inside a leg.
C7_Witness ==
    /\ op = "update"
    /\ pausePhase = "resumed"
    /\ pauseDuration > 0
    /\ startTime = startAtPause + pauseDuration
    /\ \E i \in Positions("write") :
            events[i].v.k = "num" /\ events[i].v.d > 1

\* C8: an update of a paused tween, or at a time before startTime, returns
\* true and does nothing: no write, no dispatch, and the target, startTime,
\* the start and end values, yoyoCount and isRunning stay as they are.
C8_UpdateIdleIsNoOp ==
    [][(op' = "update" /\ (paused \/ now' < startTime))
       => /\ ret' = "true"
          /\ events' = <<>>
          /\ UNCHANGED <<object, startTime, valuesStart, valuesEnd, yoyoCount,
                         isRunning, completions, chained>>]_vars

\* C8 witness: an update inside the delay window of a restarted leg, and
\* nothing was done.
C8_Witness ==
    /\ op = "update"
    /\ ~paused
    /\ now < startTime
    /\ yoyoCount = 1
    /\ Len(valuesStart) > 0
    /\ events = <<>>
    /\ ret = "true"

\* C9 as claimed: start() throws whenever a key of the end values names a
\* property that the target lacks or holds as null or undefined.
C9_ThrowsOnNullUndefinedMissing ==
    (op \in {"start", "to"} /\ phase = "started")
    => ((\E i \in 1..Len(valuesEnd) :
            object[valuesEnd[i].key] \in {Absent, Null, Undef}) => thrown)

\* C9 amended: start() throws exactly when a key of the end values names a
\* property that the target lacks or holds as null; a property that the
\* target holds as undefined is accepted and captured.
C9_ThrowsOnNullOrMissing ==
    (op \in {"start", "to"} /\ phase = "started")
    => /\ thrown <=> (\E i \in 1..Len(valuesEnd) :
                        object[valuesEnd[i].key] \in {Absent, Null})
       /\ thrown <=> (ret = "throw")
       /\ ~thrown => \A i \in 1..Len(valuesEnd) :
                        (object[valuesEnd[i].key] = Undef
                         /\ valuesEnd[i].val # Arr(<<>>))
                            => Get(valuesStart, valuesEnd[i].key) = Undef

\* C9 witness: start() threw on the second key, a property the target lacks,
\* after it had captured the first.
C9_Witness ==
    /\ op = "start"
    /\ thrown
    /\ Len(valuesEnd) = 2
    /\ valuesEnd[2].key = "x"
    /\ object["x"] = Absent
    /\ Len(valuesStart) = 1

\* C10: a property configured with an empty keyframe sequence is never
\* written: no step changes it on the target, no call writes or restores it,
\* and it is never among the start values.
C10_EmptyKeyframesUntouched ==
    [][\A p \in Keys :
        (Get(configured', p) = Arr(<<>>))
        => /\ object'[p] = object[p]
           /\ ~Has(valuesStart', p)
           /\ \A i \in 1..Len(events') :
                events'[i].e \in {"write", "restore"} => events'[i].k # p]_vars

\* C10 witness: x was configured with no keyframes beside y, and the looping
\* tween has ended a cycle, written y and put it back.
C10_Witness ==
    /\ Get(configured, "x") = Arr(<<>>)
    /\ Len(valuesStart) = 1
    /\ loop
    /\ op = "update"
    /\ Positions("write") # {}
    /\ Positions("restore") # {}

\* The tween was reversed by its own update only: never without yoyo, and with
\* yoyo once, no sooner than at the end of a forward leg played in full.
OwnLegsOnly ==
    IF yoyo THEN yoyoCount = 1 /\ startTime >= 2 * delayTime + duration
    ELSE yoyoCount = 0

\* C11: on a tween started once and reversed by its own updates only, whose
\* tweened properties held numbers, a reset() that follows the update that returned false puts every tweened
\* property back at the value it had when the tween was started, and an
\* update that follows this reset() and reaches the end of the leg puts every
\* tweened property at the end value that to() was given.
C11_ResetRoundTrip ==
    /\ [][(/\ op = "update" /\ ret = "false"
           /\ op' = "reset"
           /\ startSignals = 1
           /\ OwnLegsOnly)
          => \A i \in 1..Len(valuesStart) :
                LET p == valuesStart[i].key
                IN  IsNum(original[p]) => object'[p] = original[p]]_vars
    /\ [][(/\ op = "reset"
           /\ op' = "update"
           /\ completions >= 1
           /\ startSignals = 1
           /\ OwnLegsOnly
           /\ ~loop
           /\ ReachedOne')
          => \A i \in 1..Len(valuesStart) :
                LET p == valuesStart[i].key
                IN  (IsNum(original[p]) /\ Has(configured, p))
                        => object'[p] = EndOf(Get(configured, p))]_vars

\* C12: after an update that returned false, isRunning is false if the tween
\* has no chained tweens and true if it has.
C12_IsRunningFalseIffNoChain ==
    (op = "update" /\ ret = "false")
    => (isRunning <=> (Len(chainedTweens) > 0))

\* C13: to(properties, duration, ease, autoStart, delay, loop, yoyo) stores
\* the duration, makes the given properties the end values (every key of
\* them and no other), sets loop and yoyo and puts yoyoCount at 0; the easing
\* function is replaced if ease is not null and kept if it is, the delay is
\* replaced if delay > 0 and kept if it is not; without autoStart the call
\* returns the tween and starts nothing.
C13_ToFrame ==
    [][(op' = "to")
       => LET a == args'
          IN  /\ a.given
              /\ duration' = a.duration
              /\ Len(valuesEnd') = Len(a.properties)
              /\ \A i \in 1..Len(a.properties) :
                    /\ valuesEnd'[i].key = a.properties[i].key
                    /\ ~IsArr(a.properties[i].val)
                            => valuesEnd'[i].val = a.properties[i].val
              /\ loop' = a.loop
              /\ yoyo' = a.yoyo
              /\ yoyoCount' = 0
              /\ easingFunction' = (IF a.ease = "null" THEN easingFunction
                                    ELSE a.ease)
              /\ delayTime' = (IF a.delay > 0 THEN a.delay ELSE delayTime)
              /\ ~a.autoStart
                    => /\ ret' = "this"
                       /\ valuesEnd' = a.properties
                       /\ events' = <<>>
                       /\ UNCHANGED <<object, valuesStart, startTime,
                                      isRunning, managerTweens,
                                      otherManagerTweens, startSignals,
                                      paused, chainedTweens, chained>>
              /\ a.autoStart
                    => /\ startSignals' = startSignals + 1
                       /\ startTime' = GameNow(Self) + delayTime'
                       /\ isRunning']_vars

\* C13 witness: a tween configured with quadratic easing and a delay of 1 was
\* configured again with a null ease and a delay of 0, not to be started, with
\* another duration and another flag, and has kept the easing and the delay.
C13_Witness ==
    /\ op = "to"
    /\ calls = 2
    /\ args.ease = "null" /\ easingFunction = "QuadIn"
    /\ args.delay = 0 /\ delayTime = 1
    /\ ~args.autoStart
    /\ ret = "this"
    /\ duration = 2
    /\ yoyo /\ ~loop
    /\ Len(valuesStart) = 1
    /\ valuesEnd # <<>>
    /\ valuesStart[1].key # valuesEnd[1].key

\* C14: the target's value is put in front of a non-empty keyframe sequence
\* once per configuration: whichever of the start and end values holds the
\* sequence, over every loop cycle and yoyo leg it is the sequence given to
\* to() with one value in front (or the sequence as given, where start() has
\* thrown before it came to it).
C14_PrependAtMostOnce ==
    \A p \in Keys :
        LET c == Get(configured, p)
            s == Get(valuesStart, p)
            e == Get(valuesEnd, p)
        IN  (phase = "started" /\ IsArr(c) /\ Len(c.s) > 0)
            => /\ IsArr(e) => (e.s = c.s \/ SubSeq(e.s, 2, Len(e.s)) = c.s)
               /\ IsArr(s) => (s.s = c.s \/ SubSeq(s.s, 2, Len(s.s)) = c.s)

\* C15: while the tween is running, its last configuration having been
\* started by start() and no call having thrown, every key of the
\* start values is a key of the end values, and every key of the end values
\* whose value is not an empty keyframe sequence is a key of the start
\* values.
C15_SameKeys ==
    (isRunning /\ phase = "started" /\ startSignals >= 1 /\ ~faulted)
    => /\ KeySet(valuesStart) \subseteq KeySet(valuesEnd)
       /\ \A i \in 1..Len(valuesEnd) :
            valuesEnd[i].val # Arr(<<>>) => Has(valuesStart, valuesEnd[i].key)

\* C16: yoyoCount is 0 or 1 in every state, it is 0 after to() and after
\* yoyo(), and it is 0 after the update that ends a cycle of a looping tween
\* and starts the next: with yoyo the update that ends the reversed leg,
\* without yoyo every update that reaches the end.
C16_YoyoCountZeroOrOne ==
    /\ [](yoyoCount \in {0, 1})
    /\ []((op \in {"to", "yoyo"}) => yoyoCount = 0)
    /\ [][(/\ op' = "update"
           /\ ReachedOne'
           /\ loop
           /\ yoyo => yoyoCount = 1)
          => yoyoCount' = 0]_vars

\* The events named name that a call made for the tween itself.
Held(tweens) == Cardinality({i \in 1..Len(tweens) : tweens[i] = "A"})
Own(evs, name) == {i \in 1..Len(evs) : evs[i].e = name /\ evs[i].k = "A"}

\* C17: a call adds the tween to the manager and dispatches its onStart once
\* if it is start(), or to() with autoStart, and not at all if it is any
\* other call: an update that restarts the tween by reverse() or reset(), or
\* reverse() or reset() themselves.  So onStart has been dispatched as often
\* as the tween was started from outside.
C17_StartSignalOnExternalStartOnly ==
    [][LET external == op' = "start" \/ (op' = "to" /\ args'.autoStart)
           n == IF external THEN 1 ELSE 0
       IN  /\ startSignals' = startSignals + n
           /\ Cardinality(Own(events', "onStart")) = n
           /\ Cardinality(Own(events', "add")) = n
           /\ external =>
                IF manager = FirstGame
                THEN /\ managerTweens' = Append(managerTweens, "A")
                     /\ otherManagerTweens' = otherManagerTweens
                ELSE /\ otherManagerTweens' = Append(otherManagerTweens, "A")
                     /\ managerTweens' = managerTweens
           /\ ~external => /\ Held(managerTweens') <= Held(managerTweens)
                           /\ Held(otherManagerTweens')
                                  <= Held(otherManagerTweens)
      ]_vars

\* C17 witness: a looping tween started twice from outside has ended a cycle
\* and restarted by reset(), and onStart was dispatched twice in all.
C17_Witness ==
    /\ op = "update"
    /\ loop /\ ~yoyo
    /\ ReachedOne
    /\ Positions("restore") # {}
    /\ startTime = now + delayTime
    /\ startSignals = 2
    /\ Own(events, "onStart") = {}

\* C18: a started tween without loop, updated at every tick of a clock that
\* keeps advancing and resumed whenever it is paused, comes to dispatch
\* onComplete and to return false from update: without yoyo after one leg,
\* with yoyo after two (one reversal, and no sooner than two legs take); a
\* tween with loop never does either.
C18_EventuallyCompletes ==
    /\ (phase = "started" /\ ~loop /\ ~faulted)
            ~> (completions >= 1 /\ falseReturns >= 1)
    /\ [](completions >= 1
            => /\ ~loop
               /\ yoyoCount = (IF yoyo THEN 1 ELSE 0)
               /\ now >= (IF yoyo THEN 2 ELSE 1) * (delayTime + duration))
    /\ []((loop /\ phase = "started")
            => (completions = 0 /\ falseReturns = 0))

\* C18 witness: a tween with yoyo and a delay, paused once on its way, has
\* completed after MaxTime.
C18_Witness ==
    /\ op = "update"
    /\ ret = "false"
    /\ yoyo /\ ~loop
    /\ delayTime = 1
    /\ completions = 1
    /\ pauses = 1
    /\ pauseDuration > 0
    /\ now > MaxTime
    /\ Len(valuesStart) > 0

\* The first key of the end values, in iteration order, that names a property
\* the target lacks or holds as null; 0 when there is none.
FirstRejected ==
    IF \E i \in 1..Len(valuesEnd) : NullOrMissing(object, valuesEnd[i].key)
    THEN CHOOSE i \in 1..Len(valuesEnd) :
            /\ NullOrMissing(object, valuesEnd[i].key)
            /\ \A j \in 1..(i - 1) : ~NullOrMissing(object, valuesEnd[j].key)
    ELSE 0

\* C19 as claimed: when start() raises the error for a key that is null or
\* absent on the target, the remaining keys are still checked and captured
\* into the start values in that same call.
C19_ThrowKeepsIterating ==
    (op \in {"start", "to"} /\ thrown)
    => \A i \in 1..Len(valuesEnd) :
            (/\ ~NullOrMissing(object, valuesEnd[i].key)
             /\ valuesEnd[i].val # Arr(<<>>))
            => Has(valuesStart, valuesEnd[i].key)

\* C19 amended: when start() raises the error for a key that is null or
\* absent on the target, the iteration ends at that key: the keys before it
\* are captured into the start values, the keys after it are neither captured
\* nor given the current value in front of their keyframes; the tween is
\* registered, its onStart dispatched, its startTime set and isRunning true.
C19_ThrowAbortsIteration ==
    (op \in {"start", "to"} /\ thrown)
    => /\ FirstRejected > 0
       /\ ret = "throw"
       /\ \A i \in 1..Len(valuesEnd) :
            Has(valuesStart, valuesEnd[i].key)
                <=> (i < FirstRejected /\ configured[i].val # Arr(<<>>))
       /\ \A i \in FirstRejected..Len(valuesEnd) :
            valuesEnd[i] = configured[i]
       /\ isRunning
       /\ startTime = now + delayTime
       /\ startSignals = 1
       /\ "A" \in Range(managerTweens)

\* C19 witness: start() threw on the first of two keys, a property the target
\* holds as null or lacks, and the second, which the target holds as a
\* number, was not captured.
C19_Witness ==
    /\ op \in {"start", "to"}
    /\ thrown
    /\ Len(valuesEnd) = 2
    /\ FirstRejected = 1
    /\ IsNum(object[valuesEnd[2].key])
    /\ valuesStart = <<>>
    /\ isRunning

\* C20: the delay is applied at every restart.  The update that ends a leg or
\* a cycle and restarts the tween, by reverse() or by reset(), sets startTime
\* to the clock's time plus the delay; an update before startTime returns
\* true and writes nothing; and an update of a tween that is not paused
\* reaches the end exactly when the clock is at least startTime + duration,
\* so the restarted leg or cycle lasts delay + duration.
C20_DelayAtEveryRestart ==
    [][(op' = "update" /\ ~paused)
       => /\ (ReachedOne' /\ ret' = "true")
                => /\ startTime' = now' + delayTime
                   /\ (yoyo \/ loop)
                   /\ isRunning'
          /\ now' < startTime
                => /\ ret' = "true"
                   /\ object' = object
                   /\ events' = <<>>
                   /\ startTime' = startTime
          /\ ReachedOne' <=> now' >= startTime + duration]_vars

\* C20 witness: a looping yoyo tween with a delay of 1 has ended its reversed
\* leg, two delays and two durations after it was started at the earliest,
\* and its next leg starts one tick from now.
C20_Witness ==
    /\ op = "update"
    /\ ReachedOne
    /\ ret = "true"
    /\ loop /\ yoyo
    /\ delayTime = 1
    /\ now >= 2 * (delayTime + duration)
    /\ startTime = now + 1
    /\ Positions("write") # {}

=============================================================================
